---- MODULE Spec2Model ----
(***************************************************************************)
(* Hidden Motif: the per-room session engine (src/server/game.ts, class    *)
(* Game) together with the socket handlers that drive it                   *)
(* (src/server/server.ts).  One room is modelled.  Every handler runs to   *)
(* its next await or to completion in one step (Node's single thread);     *)
(* the three awaits of Game (round data, the render batch, the             *)
(* evaluation) and the setInterval callback are steps of their own.        *)
(***************************************************************************)
EXTENDS Integers, Sequences, FiniteSets, TLC

\* ---------------------------------------------------------------- bounds
NumSockets == 2            \* connections that ever exist; a socket id is never reused
NumPrompts == 1            \* distinct instruction texts
NumAnswers == 1            \* distinct votes cast in Spec: "no", then "yes"
NumOutcomes == 1           \* distinct outcomes of a render call in Spec: an image, then a failure
MaxFetches == 2            \* outstanding generateRoundData calls
MaxBatches == 2            \* outstanding render batches
MaxEvals == 2              \* outstanding evaluateArtworks calls
MaxPasses == 2             \* scoring passes counted per round (history)
MaxRaces == 1              \* client events sent in a phase whose screen does not offer them
NumCodes == 3              \* distinct room codes (four letters of A..Z in the source)
MaxDraws == 2              \* candidate codes drawn within one generateRoomId call
MaxCalls == 4              \* calls of the API whose outcome is drawn for one withRetry
\* values of ../constants.cjs (not part of the sources), scaled down
TOTAL_PLAYERS == 2
TOTAL_ROUNDS == 2
GALLERY_TIMER_SECONDS == 2

Sockets == 1..NumSockets
Prompts == 1..NumPrompts
Answers == {isYes \in BOOLEAN : ~isYes \/ NumAnswers > 1}
NoId == 0                  \* dodgerId: string | null = null
NoImage == 0               \* imageUrl: null
Image == 1                 \* imageUrl: the rendered bytes
Outcomes == {imageUrl \in {Image, NoImage} : imageUrl = Image \/ NumOutcomes > 1}
Undefined == 0 - 1         \* qualityScore?/originalityScore? not yet set
Codes == 1..NumCodes
NoCode == 0                \* generateRoomId has not returned within MaxDraws draws
RoomId == 1                \* the code of the room modelled (codes are opaque)
Draws == UNION {[1..n -> Codes] : n \in 1..MaxDraws}

\* GameState (src/unnamed/part_001)
LOBBY == "LOBBY"
ROUND_STARTING == "ROUND_STARTING"
BRIEFING == "BRIEFING"
PROMPTING == "PROMPTING"
GENERATING == "GENERATING"
SCORING == "SCORING"
GALLERY == "GALLERY"
REVEAL == "REVEAL"
GAME_OVER == "GAME_OVER"
GameState == {LOBBY, ROUND_STARTING, BRIEFING, PROMPTING, GENERATING,
              SCORING, GALLERY, REVEAL, GAME_OVER}

VARIABLES
  games,          \* server.ts `games`: TRUE while the room is registered
  created,        \* the room has been created once (one room is modelled)
  taken,          \* server.ts `games`: the codes under which rooms of other clients are registered
  rooms,          \* sockets that have joined the room (socket.rooms)
  gone,           \* sockets that have disconnected
  gameError,      \* sockets that have been sent a 'gameError' message
  players,        \* Game.players: sequence of Player
  state,          \* Game.state
  currentRound,   \* Game.currentRound
  roundData,      \* Game.roundData: FALSE is null
  artworks,       \* Game.artworks: sequence of Artwork
  votes,          \* Game.votes: sequence of Vote
  galleryIndex,   \* Game.galleryIndex
  galleryTime,    \* Game.galleryTime
  galleryTimer,   \* Game.galleryTimer: "null", or the handle's interval "live"/"cleared"
  liveTimers,     \* number of intervals created and not cleared
  dodgerId,       \* Game.dodgerId
  readyPlayers,   \* Game.readyPlayers
  fetches,        \* startNewRound calls suspended at generateRoundData
  batches,        \* generateAllArtworks calls suspended at Promise.all: the renders
                  \* not yet settled, and (history) those that returned null
  evals,          \* runArtEvaluation calls suspended at evaluateArtworks
  raised,         \* an exception escaped a handler or a callback
  passes,         \* history: calculateScores runs since the last round setup
  races,          \* history: client events sent out of their phase so far
  retry           \* geminiService.ts: one call of a service function through withRetry

vars == <<games, created, taken, rooms, gone, gameError, players, state, currentRound, roundData,
          artworks, votes, galleryIndex, galleryTime, galleryTimer, liveTimers,
          dodgerId, readyPlayers, fetches, batches, evals, raised, passes, races, retry>>

\* The Game object as one record, so that methods compose as in the source.
Game == [players |-> players, state |-> state, currentRound |-> currentRound,
         roundData |-> roundData, artworks |-> artworks, votes |-> votes,
         galleryIndex |-> galleryIndex, galleryTime |-> galleryTime,
         galleryTimer |-> galleryTimer, liveTimers |-> liveTimers,
         dodgerId |-> dodgerId, readyPlayers |-> readyPlayers,
         fetches |-> fetches, batches |-> batches, evals |-> evals,
         raised |-> raised, passes |-> passes]

Store(g) ==
  /\ players' = g.players
  /\ state' = g.state
  /\ currentRound' = g.currentRound
  /\ roundData' = g.roundData
  /\ artworks' = g.artworks
  /\ votes' = g.votes
  /\ galleryIndex' = g.galleryIndex
  /\ galleryTime' = g.galleryTime
  /\ galleryTimer' = g.galleryTimer
  /\ liveTimers' = g.liveTimers
  /\ dodgerId' = g.dodgerId
  /\ readyPlayers' = g.readyPlayers
  /\ fetches' = g.fetches
  /\ batches' = g.batches
  /\ evals' = g.evals
  /\ raised' = g.raised
  /\ passes' = g.passes

\* ------------------------------------------------------------- helpers
\* Array.prototype.find: the first of the indices whose element satisfies the
\* test, 0 (undefined) if there is none
find(indices) ==
  IF indices = {} THEN 0 ELSE CHOOSE i \in indices : \A j \in indices : i <= j

\* all orders of a sequence (the outcomes of sort(() => Math.random() - 0.5))
Orders(seq) ==
  LET n == Len(seq)
      bij == {f \in [1..n -> 1..n] : \A i, j \in 1..n : f[i] = f[j] => i = j}
  IN {[i \in 1..n |-> seq[f[i]]] : f \in bij}

shuffleArray(array) == Orders(array)

\* a TypeError escapes: the rest of the handler does not run
Throw(g) == [g EXCEPT !.raised = TRUE]

\* ------------------------------------------------------- Game's methods
\* mutant: a session is never full
isFullNever(g) == FALSE

isFull(g) == Len(g.players) >= TOTAL_PLAYERS

\* mutant: no test for a full roster
addPlayerAlways(g, id) ==
  [g EXCEPT !.players = Append(@, [id |-> id, score |-> 0, role |-> "Artist",
                                   promptSubmitted |-> FALSE])]

addPlayer(g, id) ==
  IF Len(g.players) >= TOTAL_PLAYERS THEN g
  ELSE [g EXCEPT !.players = Append(@, [id |-> id, score |-> 0, role |-> "Artist",
                                         promptSubmitted |-> FALSE])]

\* mutant: the removal opens the Briefing barrier when all who stay are ready
removePlayerOpening(g, id) ==
  LET kept == SelectSeq(g.players, LAMBDA p : p.id # id)
      g1 == [g EXCEPT !.players = kept]
  IN IF Len(kept) = 0 /\ g1.galleryTimer = "live"
       THEN [g1 EXCEPT !.galleryTimer = "cleared", !.liveTimers = @ - 1]
       ELSE IF /\ g1.state = BRIEFING /\ Len(kept) > 0
               /\ \A i \in DOMAIN kept : kept[i].id \in g1.readyPlayers
              THEN [g1 EXCEPT !.state = PROMPTING]
              ELSE g1

removePlayer(g, id) ==
  LET kept == SelectSeq(g.players, LAMBDA p : p.id # id)
      g1 == [g EXCEPT !.players = kept]
  IN IF Len(kept) = 0 /\ g1.galleryTimer = "live"
       THEN [g1 EXCEPT !.galleryTimer = "cleared", !.liveTimers = @ - 1]
       ELSE g1

\* startNewRound up to its await
startNewRound(g) ==
  [g EXCEPT !.state = ROUND_STARTING, !.fetches = @ + 1]

startGame(g) ==
  IF g.state # LOBBY THEN g
  ELSE startNewRound([g EXCEPT !.currentRound = 1,
                               !.players = [i \in DOMAIN @ |-> [@[i] EXCEPT !.score = 0]]])

\* mutant: a restart keeps the scores
resetGameKeepingScores(g) ==
  [g EXCEPT !.state = LOBBY, !.currentRound = 0]

resetGame(g) ==
  [g EXCEPT !.state = LOBBY, !.currentRound = 0,
            !.players = [i \in DOMAIN @ |-> [@[i] EXCEPT !.score = 0]]]

\* startNewRound after its await; dodgerIndex is the random draw (1-based)
startNewRoundResume(g, dodgerIndex) ==
  LET g1 == [g EXCEPT !.fetches = @ - 1,
                      !.roundData = TRUE,
                      !.artworks = <<>>,
                      !.votes = <<>>,
                      !.galleryIndex = 0,
                      !.readyPlayers = {},
                      !.passes = 0,
                      \* the Artwork objects of earlier batches are no longer in the list
                      !.batches = [b \in DOMAIN @ |-> [@[b] EXCEPT !.stale = TRUE]],
                      !.players = [i \in DOMAIN @ |->
                                     [@[i] EXCEPT !.role = "Artist", !.promptSubmitted = FALSE]]]
  IN IF Len(g.players) = 0
       THEN Throw(g1)    \* this.players[0] is undefined
       ELSE [g1 EXCEPT !.players[dodgerIndex].role = "Dodger",
                       !.dodgerId = g1.players[dodgerIndex].id,
                       !.state = BRIEFING]

handlePlayerReady(g, playerId) ==
  LET ready == g.readyPlayers \cup {playerId}
      g1 == [g EXCEPT !.readyPlayers = ready]
  IN IF Cardinality(ready) = Len(g.players)
       THEN [g1 EXCEPT !.state = PROMPTING]
       ELSE g1

\* generateAllArtworks up to its await: one render call per artwork
generateAllArtworks(g) ==
  [g EXCEPT !.state = GENERATING,
            !.batches = Append(@, [pending |-> {g.artworks[i].id : i \in DOMAIN g.artworks},
                                   stale |-> FALSE, failed |-> {}])]

\* mutant: only an unknown player is turned away
handlePromptSubmissionAgain(g, playerId, prompt) ==
  LET k == find({i \in DOMAIN g.players : g.players[i].id = playerId})
  IN IF k = 0 THEN g
     ELSE LET g1 == [g EXCEPT !.players[k].promptSubmitted = TRUE,
                              !.artworks = Append(@, [id |-> Len(g.artworks) + 1,
                                                      playerId |-> playerId,
                                                      prompt |-> prompt, imageUrl |-> NoImage,
                                                      isDodger |-> g.players[k].role = "Dodger",
                                                      qualityScore |-> Undefined,
                                                      originalityScore |-> Undefined])]
          IN IF \A i \in DOMAIN g1.players : g1.players[i].promptSubmitted
               THEN generateAllArtworks(g1)
               ELSE g1

handlePromptSubmission(g, playerId, prompt) ==
  LET k == find({i \in DOMAIN g.players : g.players[i].id = playerId})
  IN IF k = 0 \/ g.players[k].promptSubmitted THEN g
     ELSE LET isDodger == g.players[k].role = "Dodger"
              artworkId == Len(g.artworks) + 1
              g1 == [g EXCEPT !.players[k].promptSubmitted = TRUE,
                              !.artworks = Append(@, [id |-> artworkId, playerId |-> playerId,
                                                      prompt |-> prompt, imageUrl |-> NoImage,
                                                      isDodger |-> isDodger,
                                                      qualityScore |-> Undefined,
                                                      originalityScore |-> Undefined])]
          IN IF \A i \in DOMAIN g1.players : g1.players[i].promptSubmitted
               THEN generateAllArtworks(g1)
               ELSE g1

\* mutant: the interval in place is not cleared
startGalleryTimerKeeping(g) ==
  [g EXCEPT !.galleryTime = GALLERY_TIMER_SECONDS,
            !.galleryTimer = "live",
            !.liveTimers = @ + 1]

startGalleryTimer(g) ==
  LET g1 == IF g.galleryTimer = "live"
              THEN [g EXCEPT !.liveTimers = @ - 1]
              ELSE g
  IN [g1 EXCEPT !.galleryTime = GALLERY_TIMER_SECONDS,
                !.galleryTimer = "live",
                !.liveTimers = @ + 1]

\* runArtEvaluation up to its await
runArtEvaluation(g) ==
  LET g1 == [g EXCEPT !.state = SCORING]
  IN IF ~g1.roundData THEN g1
     ELSE [g1 EXCEPT !.evals = @ + 1]

\* mutant: the artwork's id is compared with the 0-based cursor
hasVotedByIndex(vs, voterId, artworkId) ==
  \E k \in DOMAIN vs : vs[k].voterId = voterId /\ vs[k].artworkId = artworkId - 1

hasVoted(vs, voterId, artworkId) ==
  \E k \in DOMAIN vs : vs[k].voterId = voterId /\ vs[k].artworkId = artworkId

\* mutant: no vote is recorded for a player who has not voted
synthesizeVotesNone(vs, ps, currentArtworkId, i) == vs

\* the players.forEach of nextGalleryItem, from player i on
RECURSIVE synthesizeVotes(_, _, _, _)
synthesizeVotes(vs, ps, currentArtworkId, i) ==
  IF i > Len(ps) THEN vs
  ELSE IF ~hasVoted(vs, ps[i].id, currentArtworkId)
         THEN synthesizeVotes(Append(vs, [voterId |-> ps[i].id,
                                          artworkId |-> currentArtworkId,
                                          isYes |-> FALSE]),
                              ps, currentArtworkId, i + 1)
         ELSE synthesizeVotes(vs, ps, currentArtworkId, i + 1)

nextGalleryItem(g) ==
  LET g1 == IF g.galleryTimer = "live"
              THEN [g EXCEPT !.galleryTimer = "cleared", !.liveTimers = @ - 1]
              ELSE g
  IN IF g1.galleryIndex + 1 > Len(g1.artworks)
       THEN Throw(g1)    \* this.artworks[this.galleryIndex] is undefined
       ELSE LET currentArtworkId == g1.artworks[g1.galleryIndex + 1].id
                g2 == [g1 EXCEPT !.votes = synthesizeVotes(@, g1.players, currentArtworkId, 1)]
            IN IF g2.galleryIndex < Len(g2.artworks) - 1
                 THEN startGalleryTimer([g2 EXCEPT !.galleryIndex = @ + 1])
                 ELSE runArtEvaluation(g2)

\* mutant: no test for an earlier vote
handleVoteAgain(g, voterId, isYes) ==
  IF g.galleryIndex + 1 > Len(g.artworks)
    THEN Throw(g)
    ELSE LET artworkId == g.artworks[g.galleryIndex + 1].id
             g1 == [g EXCEPT !.votes = Append(@, [voterId |-> voterId,
                                                  artworkId |-> artworkId,
                                                  isYes |-> isYes])]
         IN IF \A k \in DOMAIN g1.players : hasVoted(g1.votes, g1.players[k].id, artworkId)
              THEN nextGalleryItem(g1)
              ELSE g1

handleVote(g, voterId, isYes) ==
  IF g.galleryIndex + 1 > Len(g.artworks)
    THEN Throw(g)        \* this.artworks[this.galleryIndex] is undefined
    ELSE LET artworkId == g.artworks[g.galleryIndex + 1].id
         IN IF hasVoted(g.votes, voterId, artworkId) THEN g
            ELSE LET g1 == [g EXCEPT !.votes = Append(@, [voterId |-> voterId,
                                                          artworkId |-> artworkId,
                                                          isYes |-> isYes])]
                     allVotedForThisArt ==
                       \A k \in DOMAIN g1.players : hasVoted(g1.votes, g1.players[k].id, artworkId)
                 IN IF allVotedForThisArt THEN nextGalleryItem(g1) ELSE g1

\* ---------------------------------------------------------- scoring
\* mutant: the bonuses doubled
pointsByRankDoubled == <<6, 4, 2>>

pointsByRank == <<3, 2, 1>>

\* votes.forEach: approvals of artworks that are in the list and not the Dodger's
\* mutant: approvals of the Dodger's own artwork are counted too
RECURSIVE dodgerPointsOfAll(_, _, _)
dodgerPointsOfAll(vs, arts, i) ==
  IF i > Len(vs) THEN 0
  ELSE LET k == find({a \in DOMAIN arts : arts[a].id = vs[i].artworkId})
       IN (IF vs[i].isYes /\ k # 0 THEN 1 ELSE 0) + dodgerPointsOfAll(vs, arts, i + 1)

\* mutant: a point for every other player's "no" on the Dodger's artwork
RECURSIVE dodgerPointsOfEvasions(_, _, _)
dodgerPointsOfEvasions(vs, arts, i) ==
  IF i > Len(vs) THEN 0
  ELSE LET k == find({a \in DOMAIN arts : arts[a].id = vs[i].artworkId})
       IN (IF ~vs[i].isYes /\ k # 0 /\ arts[k].isDodger /\ arts[k].playerId # vs[i].voterId
             THEN 1 ELSE 0)
          + dodgerPointsOfEvasions(vs, arts, i + 1)

RECURSIVE dodgerPointsFrom(_, _, _)
dodgerPointsFrom(vs, arts, i) ==
  IF i > Len(vs) THEN 0
  ELSE LET k == find({a \in DOMAIN arts : arts[a].id = vs[i].artworkId})
       IN (IF vs[i].isYes /\ k # 0 /\ ~arts[k].isDodger THEN 1 ELSE 0)
          + dodgerPointsFrom(vs, arts, i + 1)

\* ranking.forEach over a score map (artwork id -> points): a later entry overwrites
RECURSIVE applyRanking(_, _, _)
applyRanking(map, ranking, index) ==
  IF index > Len(ranking) THEN map
  ELSE IF index <= Len(pointsByRank) /\ ranking[index] \in DOMAIN map
         THEN applyRanking([map EXCEPT ![ranking[index]] = pointsByRank[index]],
                           ranking, index + 1)
         ELSE applyRanking(map, ranking, index + 1)

scoreToAdd(g, p, dodgerArtwork, dodgerPoints, quality, originality) ==
  LET v == find({k \in DOMAIN g.votes : g.votes[k].voterId = p.id
                                      /\ g.votes[k].artworkId = dodgerArtwork.id})
      correctVote == v # 0 /\ g.votes[v].isYes
      a == find({k \in DOMAIN g.artworks : g.artworks[k].playerId = p.id})
  IN (IF correctVote THEN 1 ELSE 0)
     + (IF p.role = "Dodger" THEN dodgerPoints ELSE 0)
     + (IF a # 0 THEN quality[g.artworks[a].id] + originality[g.artworks[a].id] ELSE 0)

\* mutant: the pass goes on when no artwork is the deviator's
calculateScoresRanked(g, qualityRanking, originalityRanking) ==
  LET d == find({k \in DOMAIN g.artworks : g.artworks[k].isDodger})
      g0 == [g EXCEPT !.passes = IF @ < MaxPasses THEN @ + 1 ELSE @]
  IN LET dodgerArtwork == IF d = 0 THEN [id |-> NoId, playerId |-> NoId]
                              ELSE g.artworks[d]
              dodgerPoints == dodgerPointsFrom(g.votes, g.artworks, 1)
              ids == {g.artworks[i].id : i \in DOMAIN g.artworks}
              zero == [id \in ids |-> 0]
              quality == applyRanking(zero, qualityRanking, 1)
              originality == applyRanking(zero, originalityRanking, 1)
          IN [g0 EXCEPT
                !.players = [i \in DOMAIN @ |->
                   [@[i] EXCEPT !.score = @ + scoreToAdd(g, g.players[i], dodgerArtwork,
                                                         dodgerPoints, quality, originality)]],
                !.artworks = [i \in DOMAIN @ |->
                   [@[i] EXCEPT !.qualityScore = quality[g.artworks[i].id],
                                !.originalityScore = originality[g.artworks[i].id]]]]

calculateScores(g, qualityRanking, originalityRanking) ==
  LET d == find({k \in DOMAIN g.artworks : g.artworks[k].isDodger})
      g0 == [g EXCEPT !.passes = IF @ < MaxPasses THEN @ + 1 ELSE @]
  IN IF d = 0 THEN g0
     ELSE LET dodgerArtwork == g.artworks[d]
              dodgerPoints == dodgerPointsFrom(g.votes, g.artworks, 1)
              ids == {g.artworks[i].id : i \in DOMAIN g.artworks}
              zero == [id \in ids |-> 0]
              quality == applyRanking(zero, qualityRanking, 1)
              originality == applyRanking(zero, originalityRanking, 1)
          IN [g0 EXCEPT
                !.players = [i \in DOMAIN @ |->
                   [@[i] EXCEPT !.score = @ + scoreToAdd(g, g.players[i], dodgerArtwork,
                                                         dodgerPoints, quality, originality)]],
                !.artworks = [i \in DOMAIN @ |->
                   [@[i] EXCEPT !.qualityScore = quality[g.artworks[i].id],
                                !.originalityScore = originality[g.artworks[i].id]]]]

\* runArtEvaluation after its await
runArtEvaluationResume(g, qualityRanking, originalityRanking) ==
  [calculateScores([g EXCEPT !.evals = @ - 1], qualityRanking, originalityRanking)
     EXCEPT !.state = REVEAL]

\* mutant: every round starts from zero, as a game does
nextRoundFromZero(g) ==
  IF g.state # REVEAL THEN g
  ELSE IF g.currentRound < TOTAL_ROUNDS
         THEN startNewRound([g EXCEPT !.currentRound = @ + 1,
                                      !.players = [i \in DOMAIN @ |-> [@[i] EXCEPT !.score = 0]]])
         ELSE [g EXCEPT !.state = GAME_OVER]

nextRound(g) ==
  IF g.state # REVEAL THEN g
  ELSE IF g.currentRound < TOTAL_ROUNDS
         THEN startNewRound([g EXCEPT !.currentRound = @ + 1])
         ELSE [g EXCEPT !.state = GAME_OVER]

\* one render call of batch b settles: art.imageUrl = imageUrl; when it was the
\* last one, Promise.all resolves and generateAllArtworks runs on (order: the order
\* the shuffle puts the artworks in)
renderSettled(g, b, artId, imageUrl, order) ==
  LET left == g.batches[b].pending \ {artId}
      g1 == IF g.batches[b].stale THEN g
            ELSE [g EXCEPT !.artworks = [i \in DOMAIN @ |->
                     IF @[i].id = artId THEN [@[i] EXCEPT !.imageUrl = imageUrl] ELSE @[i]]]
  IN IF left # {}
       THEN [g1 EXCEPT !.batches[b].pending = left,
                       !.batches[b].failed = IF imageUrl = NoImage THEN @ \cup {artId} ELSE @]
       ELSE startGalleryTimer(
              [g1 EXCEPT !.batches = SubSeq(@, 1, b - 1) \o SubSeq(@, b + 1, Len(@)),
                         !.artworks = [i \in DOMAIN order |->
                            g1.artworks[find({a \in DOMAIN g1.artworks :
                                                g1.artworks[a].id = order[i].id})]],
                         !.state = GALLERY])

\* mutant: the cursor is moved on one tick early
timerTickEarly(g) ==
  LET g1 == [g EXCEPT !.galleryTime = @ - 1]
  IN IF g1.galleryTime <= 1 THEN nextGalleryItem(g1) ELSE g1

\* the setInterval callback
timerTick(g) ==
  LET g1 == [g EXCEPT !.galleryTime = @ - 1]
  IN IF g1.galleryTime <= 0 THEN nextGalleryItem(g1) ELSE g1

(***************************************************************************)
(* services/geminiService.ts: withRetry and the functions that call it.    *)
(* A text is a sequence of words; an error is its message and the text     *)
(* JSON.stringify gives for it, <<>> standing for no message and for       *)
(* undefined.                                                              *)
(***************************************************************************)
maxRetries == 3

Words == {"429", "RESOURCE_EXHAUSTED", "resource_exhausted", "quota"}

Errors ==
  {[ok |-> FALSE, message |-> <<w>>, json |-> <<"{}">>] : w \in Words}
    \cup {[ok |-> FALSE, message |-> <<>>, json |-> j] : j \in {<<"{}">>, <<"429">>, <<>>}}

Result == [ok |-> TRUE, message |-> <<>>, json |-> <<>>]

\* what the calls of apiCall may do, one after the other
ApiOutcomes == [1..MaxCalls -> Errors \cup {Result}]

Callers == {"generateRoundData", "generateImage", "evaluateArtworks"}

\* the value returned by the caller's catch block
Fallback(caller) ==
  CASE caller = "generateRoundData" -> "A Cyberpunk Megacity During a Rainstorm"
    [] caller = "generateImage" -> "null"
    [] caller = "evaluateArtworks" -> "shuffledIds"

\* no service call is modelled
NoRetry ==
  [caller |-> "none", api |-> <<>>, attempt |-> 0, calls |-> 0, pc |-> "none", value |-> "none"]

toLowerCase(text) ==
  [i \in DOMAIN text |-> IF text[i] = "RESOURCE_EXHAUSTED" THEN "resource_exhausted"
                         ELSE text[i]]

includes(text, word) == \E i \in DOMAIN text : text[i] = word

\* mutant: every error is taken for a rate limit error
isRateLimitErrorAlways(error) == TRUE

\* the catch block of withRetry up to its test; (error?.message || JSON.stringify(error))
isRateLimitError(error) ==
  LET errorMessage == toLowerCase(IF error.message # <<>> THEN error.message ELSE error.json)
  IN includes(errorMessage, "429") \/ includes(errorMessage, "resource_exhausted")

\* withRetry when the apiCall it awaits settles
apiCallSettled(r) ==
  LET outcome == r.api[r.calls + 1]
      r1 == [r EXCEPT !.calls = @ + 1]
  IN IF outcome.ok THEN [r1 EXCEPT !.pc = "returned", !.value = "result"]
     ELSE LET r2 == [r1 EXCEPT !.attempt = @ + 1]
          IN IF outcome.message = <<>> /\ outcome.json = <<>>
               THEN [r2 EXCEPT !.pc = "thrown"]      \* undefined.toLowerCase()
               ELSE IF isRateLimitError(outcome) /\ r2.attempt < maxRetries
                      THEN [r2 EXCEPT !.pc = "delay"]
                      ELSE [r2 EXCEPT !.pc = "thrown"]

\* withRetry when its delay is over: the test of the while loop
delayElapsed(r) ==
  IF r.attempt < maxRetries THEN [r EXCEPT !.pc = "apiCall"]
  ELSE [r EXCEPT !.pc = "thrown"]

\* the catch block of the calling function
callerCatch(r) == [r EXCEPT !.pc = "fallback", !.value = Fallback(r.caller)]

\* ------------------------------------------------- server.ts handlers
\* the keys of `games`
roomIds == (IF games THEN {RoomId} ELSE {}) \cup taken

\* mutant: the first candidate is returned unchecked
generateRoomIdOnce(keys, draws) == Head(draws)

\* generateRoomId: draws are the candidates the random letters give, in order
RECURSIVE generateRoomId(_, _)
generateRoomId(keys, draws) ==
  IF draws = <<>> THEN NoCode
  ELSE IF Head(draws) \in keys THEN generateRoomId(keys, Tail(draws))
  ELSE Head(draws)

\* getGame: the room the socket is in, if it is still registered
getGame(s) == s \in rooms /\ games

\* Socket ids are opaque: sockets are named in the order in which they enter the room.
Arrives(s) == s \notin gone /\ \A t \in Sockets : t < s => t \in rooms \cup gone

\* every step: the process is alive, and the model's caps on outstanding calls hold
Commit(g) ==
  /\ ~raised
  /\ g.fetches <= MaxFetches
  /\ Len(g.batches) <= MaxBatches
  /\ g.evals <= MaxEvals
  /\ Store(g)

\* A client sends an event from the screen of the phase it was last told of; an
\* event that reaches the session in another phase is a race, of which a run has
\* at most MaxRaces.
Sent(inPhase, g) ==
  /\ inPhase \/ races < MaxRaces
  /\ races' = IF inPhase THEN races ELSE races + 1
  /\ Commit(g)

Init ==
  /\ games = FALSE
  /\ created = FALSE
  /\ taken = {}
  /\ rooms = {}
  /\ gone = {}
  /\ gameError = {}
  /\ retry = NoRetry
  /\ players = <<>>
  /\ state = LOBBY
  /\ currentRound = 0
  /\ roundData = FALSE
  /\ artworks = <<>>
  /\ votes = <<>>
  /\ galleryIndex = 0
  /\ galleryTime = GALLERY_TIMER_SECONDS
  /\ galleryTimer = "null"
  /\ liveTimers = 0
  /\ dodgerId = NoId
  /\ readyPlayers = {}
  /\ fetches = 0
  /\ batches = <<>>
  /\ evals = 0
  /\ raised = FALSE
  /\ passes = 0
  /\ races = 0

CreateGame(s) ==
  /\ ~created
  /\ Arrives(s)
  /\ \E draws \in Draws : generateRoomId(roomIds, draws) = RoomId
  /\ created' = TRUE
  /\ games' = TRUE
  /\ rooms' = rooms \cup {s}
  /\ Commit(addPlayer(Game, s))
  /\ UNCHANGED <<taken, gone, gameError, retry, races>>

JoinGame(s) ==
  /\ s \in rooms \/ Arrives(s)
  /\ s \notin gone
  /\ UNCHANGED retry
  /\ IF games /\ ~isFull(Game)
       THEN /\ rooms' = rooms \cup {s}
            /\ Commit(addPlayer(Game, s))
            /\ UNCHANGED gameError
       ELSE /\ ~raised
            /\ gameError' = gameError \cup {s}
            /\ UNCHANGED <<rooms, players, state, currentRound, roundData, artworks,
                           votes, galleryIndex, galleryTime, galleryTimer, liveTimers,
                           dodgerId, readyPlayers, fetches, batches, evals, raised, passes>>
  /\ UNCHANGED <<games, created, taken, gone, races>>

\* mutant: anyone in the room can start
StartGameByAnyone(s) ==
  /\ getGame(s)
  /\ Sent(state = LOBBY, startGame(Game))
  /\ UNCHANGED <<games, created, taken, rooms, gone, gameError, retry>>

StartGame(s) ==
  /\ getGame(s)
  /\ Sent(state = LOBBY, IF players[1].id = s THEN startGame(Game) ELSE Game)
  /\ UNCHANGED <<games, created, taken, rooms, gone, gameError, retry>>

PlayerReady(s) ==
  /\ getGame(s)
  /\ Sent(state = BRIEFING, handlePlayerReady(Game, s))
  /\ UNCHANGED <<games, created, taken, rooms, gone, gameError, retry>>

SubmitPrompt(s, prompt) ==
  /\ getGame(s)
  /\ Sent(state = PROMPTING, handlePromptSubmission(Game, s, prompt))
  /\ UNCHANGED <<games, created, taken, rooms, gone, gameError, retry>>

CastVote(s, isYes) ==
  /\ getGame(s)
  /\ Sent(state = GALLERY, handleVote(Game, s, isYes))
  /\ UNCHANGED <<games, created, taken, rooms, gone, gameError, retry>>

NextRound(s) ==
  /\ getGame(s)
  /\ Sent(state = REVEAL, nextRound(Game))
  /\ UNCHANGED <<games, created, taken, rooms, gone, gameError, retry>>

PlayAgain(s) ==
  /\ getGame(s)
  /\ Sent(state = GAME_OVER, IF players[1].id = s THEN resetGame(Game) ELSE Game)
  /\ UNCHANGED <<games, created, taken, rooms, gone, gameError, retry>>

Disconnect(s) ==
  /\ s \in rooms
  /\ gone' = gone \cup {s}
  /\ rooms' = rooms \ {s}
  /\ IF getGame(s)
       THEN LET g == removePlayer(Game, s)
            IN /\ Commit(g)
               /\ games' = (Len(g.players) # 0)
       ELSE /\ Commit(Game)
            /\ UNCHANGED games
  /\ UNCHANGED <<created, taken, gameError, retry, races>>

\* ------------------------------------------ awaits and the interval
RoundDataResolved ==
  /\ fetches > 0
  /\ \E dodgerIndex \in 1..(IF Len(players) = 0 THEN 1 ELSE Len(players)) :
       Commit(startNewRoundResume(Game, dodgerIndex))
  /\ UNCHANGED <<games, created, taken, rooms, gone, gameError, retry, races>>

RenderSettled ==
  /\ \E b \in DOMAIN batches : \E artId \in batches[b].pending :
       \E imageUrl \in Outcomes : \E order \in shuffleArray(artworks) :
         /\ (batches[b].pending # {artId}) => order = artworks
         /\ Commit(renderSettled(Game, b, artId, imageUrl, order))
  /\ UNCHANGED <<games, created, taken, rooms, gone, gameError, retry, races>>

\* evaluateArtworks settles with the two rankings it returns
Evaluated(rankings) ==
  /\ evals > 0
  /\ \E qualityRanking \in rankings : \E originalityRanking \in rankings :
       Commit(runArtEvaluationResume(Game, qualityRanking, originalityRanking))
  /\ UNCHANGED <<games, created, taken, rooms, gone, gameError, retry, races>>

\* the answer names the artworks in the order they are shown, in both rankings:
\* one of the orders the fallback's shuffle can give
EvaluationResolved ==
  Evaluated({[i \in DOMAIN artworks |-> artworks[i].id]})

TimerTick ==
  /\ liveTimers > 0
  /\ Commit(timerTick(Game))
  /\ UNCHANGED <<games, created, taken, rooms, gone, gameError, retry, races>>

Next ==
  \/ \E s \in Sockets : CreateGame(s)
  \/ \E s \in Sockets : JoinGame(s)
  \/ \E s \in Sockets : StartGame(s)
  \/ \E s \in Sockets : PlayerReady(s)
  \/ \E s \in Sockets : \E prompt \in Prompts : SubmitPrompt(s, prompt)
  \/ \E s \in Sockets : \E isYes \in Answers : CastVote(s, isYes)
  \/ \E s \in Sockets : NextRound(s)
  \/ \E s \in Sockets : PlayAgain(s)
  \/ \E s \in Sockets : Disconnect(s)
  \/ RoundDataResolved
  \/ RenderSettled
  \/ EvaluationResolved
  \/ TimerTick

Spec == Init /\ [][Next]_vars

\* Spec with its scheduling: an interval that is live goes on firing (Node's
\* event loop), and every call to the service settles (withRetry gives up after
\* three attempts and each caller has a fallback).  Clients owe nothing.
SpecFair ==
  /\ Spec
  /\ WF_vars(TimerTick)
  /\ WF_vars(RoundDataResolved)
  /\ WF_vars(RenderSettled)
  /\ WF_vars(EvaluationResolved)

(***************************************************************************)
(* The scoring pass on its own: SpecScores starts in any Scoring state of  *)
(* a round of up to ScorePlayers players (every vote cast or synthesized,  *)
(* the evaluation outstanding) and lets evaluateArtworks answer with any   *)
(* two rankings, ids the round does not hold included.                     *)
(***************************************************************************)
ScorePlayers == 3

\* what the evaluation can answer: every list of fewer than three ids, an id
\* repeated or not, and every complete ranking of the ids a round can hold,
\* followed by an id no artwork has (the short lists name that id too)
AnyRankings ==
  LET own == 1..ScorePlayers
      ids == 1..(ScorePlayers + 1)
  IN UNION {[1..n -> ids] : n \in 0..(Len(pointsByRank) - 1)}
       \cup {Append(r, ScorePlayers + 1) :
               r \in {p \in [own -> own] : \A i, j \in own : p[i] = p[j] => i = j}}

EvaluationResolvedAny == Evaluated(AnyRankings)

\* a set of numbers as an ascending list
RECURSIVE Ascending(_)
Ascending(S) ==
  IF S = {} THEN <<>>
  ELSE LET m == CHOOSE x \in S : \A y \in S : x <= y
       IN <<m>> \o Ascending(S \ {m})

InitScores ==
  /\ games = TRUE
  /\ created = TRUE
  /\ taken = {}
  /\ gone = {}
  /\ gameError = {}
  /\ retry = NoRetry
  /\ currentRound = 1
  /\ roundData = TRUE
  /\ state = SCORING
  /\ galleryTime = GALLERY_TIMER_SECONDS
  /\ galleryTimer = "cleared"
  /\ liveTimers = 0
  /\ fetches = 0
  /\ batches = <<>>
  /\ evals = 1
  /\ raised = FALSE
  /\ passes = 0
  /\ races = 0
  /\ \E n \in 1..ScorePlayers : \E dodger \in 1..n :
     \E authors \in (SUBSET (1..n)) \ {{}} : \E yes \in SUBSET ((1..n) \X authors) :
       LET arts == Ascending(authors)
       IN /\ rooms = 1..n
          /\ readyPlayers = 1..n
          /\ dodgerId = dodger
          /\ players = [i \in 1..n |->
                          [id |-> i, score |-> 0,
                           role |-> IF i = dodger THEN "Dodger" ELSE "Artist",
                           promptSubmitted |-> i \in authors]]
          /\ artworks = [k \in DOMAIN arts |->
                           [id |-> k, playerId |-> arts[k], prompt |-> 1, imageUrl |-> Image,
                            isDodger |-> arts[k] = dodger,
                            qualityScore |-> Undefined, originalityScore |-> Undefined]]
          /\ galleryIndex = Len(arts) - 1
          /\ votes = [k \in 1..(Len(arts) * n) |->
                        LET a == ((k - 1) \div n) + 1
                            v == ((k - 1) % n) + 1
                        IN [voterId |-> v, artworkId |-> a, isYes |-> <<v, arts[a]>> \in yes]]

NextScores == EvaluationResolvedAny

SpecScores == InitScores /\ [][NextScores]_vars

(***************************************************************************)
(* The scoring pass of one scenario: SpecAllNo starts in Scoring after a   *)
(* round of ScenarioPlayers players in which everyone submitted, one       *)
(* render failed and every vote on every artwork is "no".                  *)
(***************************************************************************)
ScenarioPlayers == 4

InitAllNo ==
  /\ games = TRUE
  /\ created = TRUE
  /\ taken = {}
  /\ gone = {}
  /\ gameError = {}
  /\ retry = NoRetry
  /\ currentRound = 1
  /\ roundData = TRUE
  /\ state = SCORING
  /\ galleryTime = GALLERY_TIMER_SECONDS
  /\ galleryTimer = "cleared"
  /\ liveTimers = 0
  /\ fetches = 0
  /\ batches = <<>>
  /\ evals = 1
  /\ raised = FALSE
  /\ passes = 0
  /\ races = 0
  /\ rooms = 1..ScenarioPlayers
  /\ readyPlayers = 1..ScenarioPlayers
  /\ galleryIndex = ScenarioPlayers - 1
  /\ \E dodger \in 1..ScenarioPlayers : \E failed \in 1..ScenarioPlayers :
       /\ dodgerId = dodger
       /\ players = [i \in 1..ScenarioPlayers |->
                       [id |-> i, score |-> 0,
                        role |-> IF i = dodger THEN "Dodger" ELSE "Artist",
                        promptSubmitted |-> TRUE]]
       /\ artworks = [k \in 1..ScenarioPlayers |->
                        [id |-> k, playerId |-> k, prompt |-> 1,
                         imageUrl |-> IF k = failed THEN NoImage ELSE Image,
                         isDodger |-> k = dodger,
                         qualityScore |-> Undefined, originalityScore |-> Undefined]]
       /\ votes = [k \in 1..(ScenarioPlayers * ScenarioPlayers) |->
                     [voterId |-> ((k - 1) % ScenarioPlayers) + 1,
                      artworkId |-> ((k - 1) \div ScenarioPlayers) + 1,
                      isYes |-> FALSE]]

NextAllNo == EvaluationResolvedAny

SpecAllNo == InitAllNo /\ [][NextAllNo]_vars

\* getSerializableState: roundPoints
roundPoints ==
  Cardinality({k \in DOMAIN votes :
                 /\ votes[k].isYes
                 /\ LET a == find({i \in DOMAIN artworks : artworks[i].id = votes[k].artworkId})
                    IN a = 0 \/ ~artworks[a].isDodger})

(***************************************************************************)
(* The way to the readiness barrier on its own: the lobby, the round setup *)
(* and Briefing, with one more connection than Spec has, so that a player  *)
(* can leave and another take the seat within one round.                   *)
(***************************************************************************)
Guests == 1..(NumSockets + 1)

NextBarrier ==
  \/ \E s \in Guests : CreateGame(s)
  \/ \E s \in Guests : JoinGame(s)
  \/ \E s \in Guests : StartGame(s)
  \/ \E s \in Guests : PlayerReady(s)
  \/ \E s \in Guests : Disconnect(s)
  \/ RoundDataResolved

SpecBarrier == Init /\ [][NextBarrier]_vars

(***************************************************************************)
(* The registry on its own: the room's lobby on a server on which other    *)
(* clients create rooms (the createGame handler run for a socket outside   *)
(* the model) and close them (the disconnect handler run for the last      *)
(* player of such a room).                                                 *)
(***************************************************************************)
OtherCreated ==
  /\ ~raised
  /\ \E draws \in Draws :
       LET roomId == generateRoomId(roomIds, draws)
       IN /\ roomId # NoCode
          /\ taken' = taken \cup {roomId}
  /\ UNCHANGED <<games, created, rooms, gone, gameError, retry, players, state, currentRound,
                 roundData, artworks, votes, galleryIndex, galleryTime, galleryTimer,
                 liveTimers, dodgerId, readyPlayers, fetches, batches, evals, raised,
                 passes, races>>

OtherClosed ==
  /\ ~raised
  /\ \E roomId \in taken : taken' = taken \ {roomId}
  /\ UNCHANGED <<games, created, rooms, gone, gameError, retry, players, state, currentRound,
                 roundData, artworks, votes, galleryIndex, galleryTime, galleryTimer,
                 liveTimers, dodgerId, readyPlayers, fetches, batches, evals, raised,
                 passes, races>>

NextRegistry ==
  \/ \E s \in Sockets : CreateGame(s)
  \/ \E s \in Sockets : JoinGame(s)
  \/ \E s \in Sockets : Disconnect(s)
  \/ OtherCreated
  \/ OtherClosed

SpecRegistry == Init /\ [][NextRegistry]_vars

(***************************************************************************)
(* withRetry on its own: one call of a service function, for every way the *)
(* calls of the API may succeed and fail.  The promises awaited (the API   *)
(* call, the delay) settle, which is what the fairness condition says.     *)
(***************************************************************************)
InitRetry ==
  /\ games = FALSE
  /\ created = FALSE
  /\ taken = {}
  /\ rooms = {}
  /\ gone = {}
  /\ gameError = {}
  /\ players = <<>>
  /\ state = LOBBY
  /\ currentRound = 0
  /\ roundData = FALSE
  /\ artworks = <<>>
  /\ votes = <<>>
  /\ galleryIndex = 0
  /\ galleryTime = GALLERY_TIMER_SECONDS
  /\ galleryTimer = "null"
  /\ liveTimers = 0
  /\ dodgerId = NoId
  /\ readyPlayers = {}
  /\ fetches = 0
  /\ batches = <<>>
  /\ evals = 0
  /\ raised = FALSE
  /\ passes = 0
  /\ races = 0
  /\ \E caller \in Callers : \E api \in ApiOutcomes :
       retry = [caller |-> caller, api |-> api, attempt |-> 0, calls |-> 0,
                pc |-> "apiCall", value |-> "none"]

GameUnchanged ==
  UNCHANGED <<games, created, taken, rooms, gone, gameError, players, state, currentRound,
              roundData, artworks, votes, galleryIndex, galleryTime, galleryTimer,
              liveTimers, dodgerId, readyPlayers, fetches, batches, evals, raised,
              passes, races>>

ApiCallSettled ==
  /\ retry.pc = "apiCall"
  /\ retry' = apiCallSettled(retry)
  /\ GameUnchanged

DelayElapsed ==
  /\ retry.pc = "delay"
  /\ retry' = delayElapsed(retry)
  /\ GameUnchanged

CallerCatch ==
  /\ retry.pc = "thrown"
  /\ retry' = callerCatch(retry)
  /\ GameUnchanged

NextRetry ==
  \/ ApiCallSettled
  \/ DelayElapsed
  \/ CallerCatch

SpecRetry == InitRetry /\ [][NextRetry]_vars /\ WF_vars(NextRetry)

(***************************************************************************)
(* The claims.                                                             *)
(***************************************************************************)
Ids(ps) == {ps[i].id : i \in DOMAIN ps}

\* C1: every change of Game.state is one of the ten listed transitions
\* (Lobby->RoundStarting, RoundStarting->Briefing, Briefing->Prompting,
\* Prompting->Generating, Generating->Gallery, Gallery->Scoring, Scoring->Reveal,
\* Reveal->RoundStarting, Reveal->GameOver, GameOver->Lobby).
ListedTransitions ==
  {<<LOBBY, ROUND_STARTING>>, <<ROUND_STARTING, BRIEFING>>, <<BRIEFING, PROMPTING>>,
   <<PROMPTING, GENERATING>>, <<GENERATING, GALLERY>>, <<GALLERY, SCORING>>,
   <<SCORING, REVEAL>>, <<REVEAL, ROUND_STARTING>>, <<REVEAL, GAME_OVER>>,
   <<GAME_OVER, LOBBY>>}

C1_OnlyListedTransitions ==
  [][state' # state => <<state, state'>> \in ListedTransitions]_vars

\* C2: an action that arrives in a phase other than the one it requires leaves the
\* session state (phase, players, artifacts, votes, cursor, ready set, round
\* counter) unchanged and raises no error.
SessionUnchanged ==
  /\ UNCHANGED <<state, players, artworks, votes, galleryIndex, readyPlayers, currentRound>>
  /\ raised' = raised

C2_OutOfPhaseIsNoOp ==
  [][\A s \in Sockets :
       /\ (state # LOBBY /\ StartGame(s)) => SessionUnchanged
       /\ (state # BRIEFING /\ PlayerReady(s)) => SessionUnchanged
       /\ (state # PROMPTING /\ \E prompt \in Prompts : SubmitPrompt(s, prompt))
            => SessionUnchanged
       /\ (state # GALLERY /\ \E isYes \in Answers : CastVote(s, isYes)) => SessionUnchanged
       /\ (state # REVEAL /\ NextRound(s)) => SessionUnchanged
       /\ (state # GAME_OVER /\ PlayAgain(s)) => SessionUnchanged]_vars

\* C3: while the session exists, in Briefing, Prompting, Generating, Gallery,
\* Scoring and Reveal exactly one player of the roster has role Dodger, and
\* dodgerId is that player's id.
C3_OneDodgerInRoster ==
  (games /\ state \in {BRIEFING, PROMPTING, GENERATING, GALLERY, SCORING, REVEAL})
    => /\ Cardinality({i \in DOMAIN players : players[i].role = "Dodger"}) = 1
       /\ \A i \in DOMAIN players : players[i].role = "Dodger" => players[i].id = dodgerId

\* C4: while the session exists, in Gallery, Scoring and Reveal exactly one
\* artwork has isDodger = TRUE, and its playerId is dodgerId, the id of the player
\* holding the Dodger role.
C4_OneDodgerArtwork ==
  (games /\ state \in {GALLERY, SCORING, REVEAL})
    => /\ Cardinality({i \in DOMAIN artworks : artworks[i].isDodger}) = 1
       /\ \A i \in DOMAIN artworks : artworks[i].isDodger =>
            /\ artworks[i].playerId = dodgerId
            /\ \E k \in DOMAIN players :
                 players[k].role = "Dodger" /\ players[k].id = artworks[i].playerId

\* C5: the votes ledger never holds two entries for one (voterId, artworkId) pair.
C5_OneVotePerPair ==
  \A i, j \in DOMAIN votes :
    (votes[i].voterId = votes[j].voterId /\ votes[i].artworkId = votes[j].artworkId) => i = j

\* C5 witness: the cursor has moved on and both artworks of a two-player round
\* hold a vote of either player.
C5_Witness ==
  /\ Len(players) = 2 /\ Len(artworks) = 2 /\ galleryIndex = 1
  /\ \A i \in DOMAIN players : \A a \in DOMAIN artworks :
       \E k \in DOMAIN votes :
         votes[k].voterId = players[i].id /\ votes[k].artworkId = artworks[a].id

\* C6: while the session exists, in Scoring and Reveal every artwork holds exactly
\* one vote of every player of the roster, and no vote of anyone else.
C6_FullLedger ==
  (games /\ state \in {SCORING, REVEAL})
    => /\ \A a \in DOMAIN artworks : \A i \in DOMAIN players :
            Cardinality({k \in DOMAIN votes : /\ votes[k].artworkId = artworks[a].id
                                               /\ votes[k].voterId = players[i].id}) = 1
       /\ \A k \in DOMAIN votes : votes[k].voterId \in Ids(players)

\* C7: calculateScores runs exactly once per round: never a second time before the
\* next round's setup, and once by the time the round is left from Reveal.
C7_OneScoringPassPerRound ==
  [][/\ passes' <= 1
     /\ (state = REVEAL /\ state' \in {ROUND_STARTING, GAME_OVER}) => passes = 1]_vars

\* C8 as claimed: one scoring pass adds at most 1 + (N-1) + 3 + 3 to a player's
\* score, N the number of players.
C8_DeltaAtMostLinear ==
  [][Len(players') = Len(players) =>
       \A i \in DOMAIN players :
         players'[i].score - players[i].score <= 1 + (Len(players) - 1) + 3 + 3]_vars

\* C8 as amended: one scoring pass adds at most 1 + N*(N-1) + 3 + 3 to a player's
\* score: each of the N players can approve each of the N-1 other artworks.
C8_DeltaAtMostQuadratic ==
  [][Len(players') = Len(players) =>
       \A i \in DOMAIN players :
         players'[i].score - players[i].score
           <= 1 + Len(players) * (Len(players) - 1) + 3 + 3]_vars

\* C8 witness: the bound is met in a round of ScorePlayers players.
C8_Witness ==
  /\ state = REVEAL /\ Len(players) = ScorePlayers
  /\ \E i \in DOMAIN players :
       players[i].score = 1 + ScorePlayers * (ScorePlayers - 1) + 3 + 3

\* C9: the pass adds to a player's score 1 for an approving vote on the deviator's
\* artwork, for the deviator the number of approving votes on other artworks, and
\* the two bonuses of the player's own artwork; the artworks at positions 1, 2, 3
\* of a ranking get 3, 2, 1, all others 0; both bonuses are stored on the artwork.
\* A ranking that lists an artwork twice names two bonuses for it: either is taken
\* as the claimed one.
Bonus(ranking, id) ==
  {4 - n : n \in {m \in DOMAIN ranking : m <= 3 /\ ranking[m] = id}}

IsBonus(ranking, id, points) ==
  IF Bonus(ranking, id) = {} THEN points = 0 ELSE points \in Bonus(ranking, id)

DeviatorArtworkIds == {artworks[a].id : a \in {b \in DOMAIN artworks : artworks[b].isDodger}}

Detection(p) ==
  IF \E k \in DOMAIN votes :
       votes[k].voterId = p.id /\ votes[k].artworkId \in DeviatorArtworkIds /\ votes[k].isYes
    THEN 1 ELSE 0

Deception(p) ==
  IF p.role = "Dodger"
    THEN Cardinality({k \in DOMAIN votes :
                        votes[k].isYes /\ votes[k].artworkId \notin DeviatorArtworkIds})
    ELSE 0

OwnBonus(p, arts) ==
  IF \E a \in DOMAIN arts : arts[a].playerId = p.id
    THEN LET a == CHOOSE b \in DOMAIN arts : arts[b].playerId = p.id
         IN arts[a].qualityScore + arts[a].originalityScore
    ELSE 0

C9_ScoreFormula ==
  (state = SCORING /\ evals > 0 /\ DeviatorArtworkIds # {})
    => \A q \in AnyRankings : \A o \in AnyRankings :
         \A after \in {runArtEvaluationResume(Game, q, o)} :
            /\ \A a \in DOMAIN artworks :
                 /\ IsBonus(q, artworks[a].id, after.artworks[a].qualityScore)
                 /\ IsBonus(o, artworks[a].id, after.artworks[a].originalityScore)
            /\ \A i \in DOMAIN players :
                 after.players[i].score
                   = players[i].score + Detection(players[i]) + Deception(players[i])
                     + OwnBonus(players[i], after.artworks)

\* C9 witness: a pass has run in which the deviator earned all three kinds of
\* points and the bonuses were stored.
C9_Witness ==
  /\ state = REVEAL /\ passes = 1
  /\ \E i \in DOMAIN players : \E a \in DOMAIN artworks :
       /\ players[i].role = "Dodger" /\ artworks[a].playerId = players[i].id
       /\ artworks[a].qualityScore = 3 /\ artworks[a].originalityScore = 1
       /\ players[i].score = 1 + 2 + 3 + 1

\* C10: a player's score is a non-negative integer and does not decrease in any
\* step other than one of startGame or resetGame.
ScoresKept ==
  IF Len(players') = Len(players)
    THEN \A i \in DOMAIN players : players'[i].score >= players[i].score
    ELSE IF Len(players') = Len(players) + 1
      THEN \A i \in DOMAIN players : players'[i].score >= players[i].score
      ELSE \A i \in DOMAIN players' : \E k \in DOMAIN players :
             players[k].id = players'[i].id /\ players'[i].score >= players[k].score

C10_ScoresMonotone ==
  [][/\ \A i \in DOMAIN players' : players'[i].score \in Nat
     /\ \/ ScoresKept
        \/ \E s \in Sockets : StartGame(s) \/ PlayAgain(s)]_vars

\* C10 witness: a scoring pass has raised a score.
C10_Witness ==
  passes > 0 /\ \E i \in DOMAIN players : players[i].score > 0

\* C11: the session enters Prompting only when every player of the roster has
\* signalled ready since the round's setup (readyPlayers is emptied by the setup
\* and filled by ready signals only), whoever else has signalled and left.
C11_BarrierOfCurrentPlayers ==
  [][(state # PROMPTING /\ state' = PROMPTING)
       => \A i \in DOMAIN players' : players'[i].id \in readyPlayers']_vars

\* C12: the session enters Generating only when every player of the roster has
\* promptSubmitted, and the artworks are exactly one per player of the roster, with
\* none of anyone else.
C12_OneArtworkPerCurrentPlayer ==
  [][(state # GENERATING /\ state' = GENERATING)
       => /\ \A i \in DOMAIN players' : players'[i].promptSubmitted
          /\ \A i \in DOMAIN players' :
               Cardinality({a \in DOMAIN artworks' :
                              artworks'[a].playerId = players'[i].id}) = 1
          /\ \A a \in DOMAIN artworks' : artworks'[a].playerId \in Ids(players')]_vars

\* C13: a submission by a player who has already submitted in the round leaves
\* the artworks, every promptSubmitted flag and the phase as they are, whatever
\* its text (one text more than the players of Spec send).
C13_SecondSubmissionIsNoOp ==
  \A i \in DOMAIN players : \A prompt \in 1..(NumPrompts + 1) :
    players[i].promptSubmitted =>
      \A after \in {handlePromptSubmission(Game, players[i].id, prompt)} :
        /\ after.artworks = artworks
        /\ after.players = players
        /\ after.state = state
        /\ after.batches = batches

\* C13 witness: in Prompting one player has submitted and waits for another, so
\* that a second submission meets an open round.
C13_Witness ==
  /\ games /\ state = PROMPTING /\ Len(artworks) = 1
  /\ \E i, j \in DOMAIN players :
       /\ players[i].promptSubmitted /\ artworks[1].playerId = players[i].id
       /\ ~players[j].promptSubmitted

\* C14: a vote by a player who already has a vote on the artwork on display
\* leaves the ledger (the recorded isYes with it), the cursor, the countdown and
\* the phase as they are, whichever way the second vote goes.
C14_SecondVoteIsNoOp ==
  galleryIndex + 1 <= Len(artworks) =>
    \A k \in DOMAIN votes : \A isYes \in BOOLEAN :
      votes[k].artworkId = artworks[galleryIndex + 1].id =>
        \A after \in {handleVote(Game, votes[k].voterId, isYes)} :
          /\ after.votes = votes
          /\ after.galleryIndex = galleryIndex
          /\ after.galleryTime = galleryTime
          /\ after.galleryTimer = galleryTimer
          /\ after.liveTimers = liveTimers
          /\ after.state = state
          /\ after.raised = raised

\* C14 witness: in Gallery one player has voted on the artwork on display and
\* another has not, so that the countdown still runs when a second vote arrives.
C14_Witness ==
  /\ games /\ state = GALLERY /\ galleryTimer = "live" /\ Len(players) = 2
  /\ hasVoted(votes, players[1].id, artworks[galleryIndex + 1].id)
  /\ ~hasVoted(votes, players[2].id, artworks[galleryIndex + 1].id)

\* C15: a vote cast for an artwork the cursor has already passed is a no-op.  The
\* castVote event names no artwork; once the gallery is over (Scoring, Reveal) the
\* cursor has passed every artwork, and a vote then adds nothing to the ledger
\* and changes no score.
C15_LateVoteIsNoOp ==
  [][\A s \in Sockets : \A isYes \in Answers :
       (state \in {SCORING, REVEAL} /\ CastVote(s, isYes))
         => /\ votes' = votes
            /\ \A i \in DOMAIN players : players'[i].score = players[i].score]_vars

\* C16: within a round the cursor never goes back and moves by one only, and only
\* in a step in which the countdown reaches zero or the vote just cast gives the
\* artwork at the old position a vote of every player of the roster (the round's
\* setup puts the cursor back to 0).
C16_CursorOnlyForward ==
  [][galleryIndex' # galleryIndex =>
       \/ galleryIndex' = 0 /\ RoundDataResolved
       \/ /\ galleryIndex' = galleryIndex + 1
          /\ galleryIndex + 1 <= Len(artworks)
          /\ \/ TimerTick /\ galleryTime - 1 <= 0
             \/ \E s \in Sockets : \E isYes \in Answers :
                  /\ CastVote(s, isYes)
                  /\ \A k \in DOMAIN players :
                       \/ players[k].id = s
                       \/ hasVoted(votes, players[k].id, artworks[galleryIndex + 1].id)]_vars

\* C16 witness: the cursor has moved on in a round of two artworks.
C16_Witness ==
  games /\ state = GALLERY /\ galleryIndex = 1 /\ Len(artworks) = 2

\* C17: at most one countdown interval of the session is live, also when
\* generateAllArtworks is entered again while a countdown runs.
C17_OneLiveTimer ==
  liveTimers <= 1 /\ (liveTimers = 1 <=> galleryTimer = "live")

\* C17 witness: a countdown is live while a second render batch is still
\* outstanding, whose completion starts the countdown anew.
C17_Witness ==
  liveTimers = 1 /\ state = GALLERY /\ Len(batches) >= 1

\* C18: once the last player has left and the session is removed from the
\* registry, no countdown interval of the session is live (so that no tick
\* mutates it), whatever calls were outstanding when the player left.
C18_NoTimerAfterRemoval ==
  (created /\ ~games) => liveTimers = 0

\* C19: when the last render of a batch settles in Generating, the session goes
\* to Gallery with as many artworks as before; an artwork whose render failed has
\* imageUrl = null and every other artwork has its image.
C19_RendersSettleIntoGallery ==
  [][\A b \in DOMAIN batches :
       (/\ state = GENERATING
        /\ Cardinality(batches[b].pending) = 1
        /\ batches' = SubSeq(batches, 1, b - 1) \o SubSeq(batches, b + 1, Len(batches)))
         => /\ state' = GALLERY
            /\ Len(artworks') = Len(artworks)
            /\ \A a \in DOMAIN artworks' :
                 /\ artworks'[a].id \in batches[b].failed
                      => artworks'[a].imageUrl = NoImage
                 /\ artworks'[a].id \notin batches[b].failed \cup batches[b].pending
                      => artworks'[a].imageUrl = Image]_vars

\* C20: the session does not remain in Scoring: while it is in Scoring an
\* evaluation call is outstanding, whose settling (answer or fallback) takes it to
\* Reveal.
C20_ScoringHasEvaluation ==
  (games /\ state = SCORING) => evals > 0

\* C21: a start sent by a player who is not the first entry of the roster leaves
\* the phase, the round counter and the players (scores included) as they are; a
\* start sent by the first entry in Lobby sets every score to 0 and the round
\* counter to 1 and moves to RoundStarting, the roster otherwise kept.
C21_StartIsHostOnly ==
  [][\A s \in Sockets :
       StartGame(s) =>
         IF players[1].id # s
           THEN UNCHANGED <<state, currentRound, players>>
           ELSE state = LOBBY =>
                  /\ state' = ROUND_STARTING
                  /\ currentRound' = 1
                  /\ players' = [i \in DOMAIN players |-> [players[i] EXCEPT !.score = 0]]]_vars

\* C21 witness: a second game has been started (scores were earned in the first
\* one) by the host of a roster of two, with no event out of its phase.
C21_Witness ==
  /\ games /\ state = ROUND_STARTING /\ currentRound = 1 /\ passes > 0
  /\ Len(players) = 2 /\ players[1].id # players[2].id /\ races = 0

\* C22: an advance sent in Reveal by a player who is not the first entry of the
\* roster leaves the phase and the round counter as they are.
C22_AdvanceIsHostOnly ==
  [][\A s \in Sockets :
       (state = REVEAL /\ getGame(s) /\ players[1].id # s /\ NextRound(s))
         => UNCHANGED <<state, currentRound>>]_vars

\* C23: a restart in GameOver moves the session to Lobby, sets the round counter
\* and every score to 0 and leaves the roster (the players and their order)
\* otherwise as it is.
C23_RestartKeepsRoster ==
  [][\A s \in Sockets :
       (state = GAME_OVER /\ getGame(s) /\ players[1].id = s /\ PlayAgain(s))
         => /\ state' = LOBBY
            /\ currentRound' = 0
            /\ players' = [i \in DOMAIN players |-> [players[i] EXCEPT !.score = 0]]]_vars

\* C23 witness: the session is back in Lobby after a game in which points were
\* scored, no event having been sent out of its phase (the restart came in
\* GameOver).
C23_Witness ==
  /\ games /\ state = LOBBY /\ currentRound = 0 /\ passes > 0 /\ races = 0
  /\ Len(players) = 2

\* C24: currentRound is 0 in Lobby (before a start), lies in 1..TOTAL_ROUNDS in
\* every phase from RoundStarting to GameOver, grows by exactly 1 in a step from
\* Reveal to RoundStarting, and GameOver is entered only from Reveal, by an
\* advance, with currentRound = TOTAL_ROUNDS.
C24_RoundCounter ==
  [][/\ state' = LOBBY => currentRound' = 0
     /\ state' # LOBBY => currentRound' \in 1..TOTAL_ROUNDS
     /\ (state = REVEAL /\ state' = ROUND_STARTING) => currentRound' = currentRound + 1
     /\ (state # GAME_OVER /\ state' = GAME_OVER)
          => /\ state = REVEAL
             /\ currentRound = TOTAL_ROUNDS
             /\ \E s \in Sockets : NextRound(s)]_vars

\* C25: the roster never holds more than TOTAL_PLAYERS players, and addPlayer on
\* a full session changes nothing, whoever is to be added (a connection more than
\* Spec has included).
C25_RosterBounded ==
  /\ Len(players) <= TOTAL_PLAYERS
  /\ isFull(Game) => \A id \in 1..(NumSockets + 1) : addPlayer(Game, id) = Game

\* C25 witness: the roster is full of distinct players.
C25_Witness ==
  /\ games /\ Len(players) = TOTAL_PLAYERS
  /\ \A i, j \in DOMAIN players : players[i].id = players[j].id => i = j

\* C26: a join against a room that is not registered, or against a full session,
\* sends 'gameError' to the joining socket and to no one else, and leaves the
\* registry, the room's membership and the whole session as they are.
C26_RejectedJoinChangesNothing ==
  [][\A s \in Sockets :
       (JoinGame(s) /\ (~games \/ Len(players) >= TOTAL_PLAYERS))
         => /\ gameError' = gameError \cup {s}
            /\ UNCHANGED <<games, created, rooms, gone, players, state, currentRound,
                           roundData, artworks, votes, galleryIndex, galleryTime,
                           galleryTimer, liveTimers, dodgerId, readyPlayers, fetches,
                           batches, evals, raised, passes>>]_vars

\* C26 witness: a full session holds 'gameError' recipients on both sides: a
\* socket that is not in the room, and one that is (turned away before the room
\* existed, or on a second join).
C26_Witness ==
  /\ games /\ Len(players) = TOTAL_PLAYERS
  /\ \E s \in gameError : s \notin rooms
  /\ \E s \in gameError : s \in rooms

\* C27: a registered session has a player (the disconnect of the last one
\* removes the room's code), and createGame never registers a code under which a
\* session is registered: neither the room's code for another session, nor,
\* whatever the random candidates, any key of the registry.
C27_NoEmptySessionNoCodeTwice ==
  /\ games => Len(players) > 0
  /\ games => RoomId \notin taken
  /\ \A draws \in Draws : generateRoomId(roomIds, draws) \notin roomIds

\* C27 witness: the room is registered next to another session's, a player has
\* left it and another is still in it.
C27_Witness ==
  games /\ taken # {} /\ gone # {} /\ Len(players) > 0

\* the case of C28: a round of ScenarioPlayers players, an artwork of each, one
\* without image, every vote "no": its scoring pass
AllNoPass ==
  /\ state = SCORING /\ state' = REVEAL
  /\ Len(players) = ScenarioPlayers /\ Len(artworks) = ScenarioPlayers
  /\ \E a \in DOMAIN artworks : artworks[a].imageUrl = NoImage
  /\ \A k \in DOMAIN votes : ~votes[k].isYes

\* C28 as claimed: after a round of four players in which all submitted, one render failed
\* and every player voted "no" on every artwork, the scoring pass gives the
\* deviator 3 false-accusation points: 3 on top of the bonuses of the deviator's
\* own artwork, and 3 as the round's points shown with the results.
C28_AllNoGivesThree ==
  [][AllNoPass
       => /\ roundPoints' = 3
          /\ \A i \in DOMAIN players :
               players[i].role = "Dodger" =>
                 players'[i].score
                   = players[i].score + 3 + OwnBonus(players[i], artworks')]_vars

\* C28 as amended: in that round no artwork was approved, so the pass gives the
\* deviator no false-accusation point: the round's points are 0 and every
\* player, the deviator included, gains the bonuses of the own artwork only.
C28_AllNoGivesNone ==
  [][AllNoPass
       => /\ roundPoints' = 0
          /\ \A i \in DOMAIN players :
               players'[i].score = players[i].score + OwnBonus(players[i], artworks')]_vars

\* C28 witness: the pass of such a round has run, and the deviator holds the two
\* top bonuses and nothing else.
C28_Witness ==
  /\ state = REVEAL /\ passes = 1 /\ Len(players) = ScenarioPlayers /\ Len(artworks) = ScenarioPlayers
  /\ \A k \in DOMAIN votes : ~votes[k].isYes
  /\ \E a \in DOMAIN artworks : artworks[a].imageUrl = NoImage
  /\ \E i \in DOMAIN players : players[i].role = "Dodger" /\ players[i].score = 3 + 3

\* C29: when a player leaves in Briefing and every player who stays has already
\* signalled ready, the removal itself opens the barrier (Prompting); when a
\* player leaves in Prompting and every player who stays has already submitted,
\* the removal itself moves the session to Generating.
C29_LeaveOpensBarrier ==
  [][\A s \in Sockets :
       (games /\ Disconnect(s) /\ Len(players') > 0)
         => /\ (state = BRIEFING /\ \A i \in DOMAIN players' : players'[i].id \in readyPlayers)
                 => state' = PROMPTING
            /\ (state = PROMPTING /\ \A i \in DOMAIN players' : players'[i].promptSubmitted)
                 => state' = GENERATING]_vars

\* C30: with the interval firing, a registered session that is in Gallery with
\* a non-empty list of artworks reaches Scoring, whether or not anyone votes
\* (unless its last player leaves and the session is removed).
C30_GalleryReachesScoring ==
  (games /\ state = GALLERY /\ Len(artworks) > 0) ~> (state = SCORING \/ ~games)

\* the step is the castVote handler run for this voter with this answer
VoteCastBy(voterId, isYes) ==
  \E s \in Sockets : s = voterId /\ CastVote(s, isYes)

\* the cursor moves on, or the session enters Scoring
LeavesArtwork ==
  \/ galleryIndex' = galleryIndex + 1
  \/ state # SCORING /\ state' = SCORING

\* the ledger after the step is the ledger before it and, for each player of the
\* roster without a vote on the artwork, one new vote on it
SynthesizedFor(currentArtworkId) ==
  /\ Len(votes') >= Len(votes)
  /\ SubSeq(votes', 1, Len(votes)) = votes
  /\ \A i \in DOMAIN players : hasVoted(votes', players[i].id, currentArtworkId)
  /\ \A k \in (Len(votes) + 1)..Len(votes') :
       /\ votes'[k].artworkId = currentArtworkId
       /\ votes'[k].voterId \in Ids(players)
       /\ ~hasVoted(votes, votes'[k].voterId, currentArtworkId)
       /\ \A j \in (Len(votes) + 1)..Len(votes') :
            votes'[j].voterId = votes'[k].voterId => j = k
       /\ \/ ~votes'[k].isYes /\ ~VoteCastBy(votes'[k].voterId, TRUE)
          \/ k = Len(votes) + 1 /\ VoteCastBy(votes'[k].voterId, votes'[k].isYes)

\* C31: galleryTime stays within 0..GALLERY_TIMER_SECONDS; a step that moves the
\* cursor on puts galleryTime back to GALLERY_TIMER_SECONDS, and such a step, as
\* well as the step that enters Scoring, leaves the ledger as it was but for new
\* votes on the artwork being left: the vote cast in the step, if any, and an
\* isYes = FALSE vote for exactly the players of the roster who had none.
C31_AdvanceSynthesizesVotes ==
  [][/\ galleryTime' \in 0..GALLERY_TIMER_SECONDS
     /\ galleryIndex' = galleryIndex + 1 => galleryTime' = GALLERY_TIMER_SECONDS
     /\ LeavesArtwork
          => /\ galleryIndex + 1 <= Len(artworks)
             /\ SynthesizedFor(artworks[galleryIndex + 1].id)]_vars

\* C31 witness: in a round of two players the countdown of the first artwork ran
\* out with one vote cast: the cursor has moved on, the countdown is full again
\* and the ledger holds the vote cast and the one recorded for the other player.
C31_Witness ==
  /\ games /\ state = GALLERY /\ galleryIndex = 1 /\ Len(players) = 2
  /\ players[1].id # players[2].id
  /\ galleryTime = GALLERY_TIMER_SECONDS /\ galleryTimer = "live"
  /\ Len(votes) = 2 /\ votes[1].voterId = players[2].id /\ votes[2].voterId = players[1].id

\* what a player submitted of each artwork of a list
Submitted(list) ==
  [i \in DOMAIN list |-> [id |-> list[i].id, playerId |-> list[i].playerId,
                          prompt |-> list[i].prompt, isDodger |-> list[i].isDodger]]

\* generateAllArtworks resumes after its Promise.all
BatchCompletes ==
  \/ Len(batches') < Len(batches)
  \/ state # GALLERY /\ state' = GALLERY

\* the list after the shuffle is a permutation of the list before it
ShufflePermutes ==
  [][BatchCompletes => Submitted(artworks') \in Orders(Submitted(artworks))]_vars

\* C32: the step in which a render batch completes (the session enters Gallery,
\* the artworks are shuffled and the countdown starts) leaves no render of the
\* round's artworks outstanding, and the shuffled list is a permutation of the
\* list before it in which every artwork keeps its id, author, prompt and
\* deviator flag.
C32_GalleryAfterAllRenders ==
  [][BatchCompletes
       => /\ \A b \in DOMAIN batches' : batches'[b].stale
          /\ Submitted(artworks') \in Orders(Submitted(artworks))]_vars

\* C33: when the scoring pass runs on a list in which no artwork has isDodger set,
\* whatever rankings the evaluation returns, no player's score changes, no
\* artwork gets a bonus, and the session goes from Scoring to Reveal.
C33_NoDeviatorArtworkNoPoints ==
  (state = SCORING /\ evals > 0 /\ DeviatorArtworkIds = {})
    => \A q \in AnyRankings : \A o \in AnyRankings :
         \A after \in {runArtEvaluationResume(Game, q, o)} :
            /\ after.players = players
            /\ after.artworks = artworks
            /\ \A a \in DOMAIN after.artworks :
                 /\ after.artworks[a].qualityScore = Undefined
                 /\ after.artworks[a].originalityScore = Undefined
            /\ after.state = REVEAL
            /\ ~after.raised

\* C33 witness: a pass has run on two artworks, neither of them the deviator's,
\* one of which was voted "yes": the session is in Reveal, every score is 0 and
\* no artwork has a bonus.
C33_Witness ==
  /\ state = REVEAL /\ passes = 1 /\ evals = 0
  /\ DeviatorArtworkIds = {} /\ Len(artworks) = 2
  /\ \E k \in DOMAIN votes : votes[k].isYes
  /\ \A i \in DOMAIN players : players[i].score = 0
  /\ \A a \in DOMAIN artworks : artworks[a].qualityScore = Undefined

\* C34: the step in which a player leaves does not change the phase and starts no
\* render and no evaluation, also when the session is in Briefing and every
\* player who stays has signalled ready, or in Prompting and every player who
\* stays has submitted.
C34_LeaveKeepsPhase ==
  [][\A s \in Sockets :
       Disconnect(s) => /\ state' = state
                        /\ batches' = batches
                        /\ evals' = evals
                        /\ fetches' = fetches]_vars

\* C34 witness: a player has left a session that is still in Briefing although
\* every player who stayed has signalled ready.
C34_Witness ==
  /\ games /\ state = BRIEFING /\ gone # {} /\ Len(players) > 0
  /\ \A i \in DOMAIN players : players[i].id \in readyPlayers

\* C35: at most one call of startNewRound is suspended at generateRoundData at
\* any time, so that no entry into RoundStarting is followed by two round setups,
\* also when a restart and a start arrive while the fetch is outstanding.
C35_OneFetchOutstanding ==
  fetches <= 1

\* the text of the error of the k-th call names a rate limit
Retryable(k) ==
  LET error == retry.api[k]
      text == IF error.message # <<>> THEN error.message ELSE error.json
  IN /\ ~error.ok
     /\ \E i \in DOMAIN text : text[i] \in {"429", "resource_exhausted", "RESOURCE_EXHAUSTED"}

\* the call through withRetry is over for the function that made it
Settled == retry.pc \in {"returned", "fallback"}

\* C36: withRetry makes at most 3 calls and comes to an end; every call but the
\* last failed with a rate limit error; it returns the result of the first call
\* that succeeds; it waits for another attempt only after a rate limit error and
\* fewer than 3 calls; it throws after any other error and after the third
\* failure, and the calling function then returns its fallback value.
C36_RetryBoundedWithFallback ==
  /\ [](/\ retry.calls <= maxRetries
        /\ \A k \in 1..(retry.calls - 1) : Retryable(k)
        /\ retry.pc = "returned"
             => retry.api[retry.calls].ok /\ retry.value = "result"
        /\ retry.pc = "delay"
             => Retryable(retry.calls) /\ retry.calls < maxRetries
        /\ retry.pc \in {"thrown", "fallback"}
             => /\ ~retry.api[retry.calls].ok
                /\ retry.calls = maxRetries \/ ~Retryable(retry.calls)
        /\ retry.pc = "fallback" => retry.value = Fallback(retry.caller)
        /\ (retry.calls < maxRetries /\ retry.calls > 0 /\ Retryable(retry.calls))
             => retry.pc \in {"delay", "apiCall"})
  /\ <>Settled

\* C36 witness: three calls in a row failed with rate limit errors, the third
\* failure was thrown and the round-content function returned the fixed theme.
C36_Witness ==
  /\ retry.pc = "fallback" /\ retry.calls = 3 /\ retry.caller = "generateRoundData"
  /\ \A k \in 1..3 : Retryable(k)
  /\ retry.value = "A Cyberpunk Megacity During a Rainstorm"

\* C37: the ids of the players of the roster are pairwise distinct: a connection
\* that joins a room it is already in is not added a second time.
C37_RosterIdsDistinct ==
  \A i, j \in DOMAIN players : players[i].id = players[j].id => i = j

\* C38: a step of the castVote handler, or of the interval at countdown zero,
\* finds the cursor within the list of artworks and raises nothing, also when
\* the vote arrives in Lobby, RoundStarting, Briefing or Prompting.
C38_ArtworkOnDisplayExists ==
  [][((\E s \in Sockets : \E isYes \in Answers : CastVote(s, isYes) /\ getGame(s))
        \/ (TimerTick /\ galleryTime - 1 <= 0))
       => /\ galleryIndex + 1 <= Len(artworks)
          /\ ~raised']_vars

\* C39: an interval is live only while the session is in Gallery.
C39_TimerOnlyInGallery ==
  liveTimers > 0 => state = GALLERY

\* C40: the step in which startNewRound resumes after its fetch finds a player
\* in the roster and raises nothing, also when players left during the fetch.
C40_SetupFindsPlayers ==
  [][RoundDataResolved => Len(players) > 0 /\ ~raised']_vars

====
